---- MODULE Spec2Model ----
(***************************************************************************)
(* gscli: the multi-account credential store (lib/accounts.ts), the        *)
(* authenticated session provider getAuthenticatedClient and the OAuth2    *)
(* login flow authenticate (lib/auth.ts), as state machines.               *)
(*                                                                         *)
(* Account keys are e-mail addresses.  No member of Object.prototype has   *)
(* such a name, so the property reads config.accounts[email] of the code   *)
(* are own-key lookups for every key in the model.                         *)
(***************************************************************************)
EXTENDS Naturals, Sequences, FiniteSets

(***************************************************************************)
(* Bounds of the model.                                                    *)
(***************************************************************************)
\* Date.now() runs over 0..MaxTime, expiry dates over 1..MaxTime.
MaxTime == 2
\* callback requests one authenticate call may receive
MaxRequests == 2

(***************************************************************************)
(* Values.                                                                 *)
(***************************************************************************)
Emails == {"a@x.com", "b@x.com"}

\* the JavaScript value undefined (a missing property, an omitted argument)
Undefined == "undefined"

Times == 0..MaxTime
ExpiryDates == 1..MaxTime

\* app-level OAuth client registrations (the contents of a client.json)
AppClients ==
    { [client_id |-> "id1", client_secret |-> "secret1"],
      [client_id |-> "id2", client_secret |-> "secret2"] }

\* a token response of the token endpoint, with the expiry_date the client
\* library stamps on it; the refresh_token may be missing
Tokens(access_token, refresh_token, scope, expiry_date) ==
    [ access_token |-> access_token, refresh_token |-> refresh_token,
      scope |-> scope, token_type |-> "Bearer", expiry_date |-> expiry_date ]

\* what oauth2Client.getToken(code) can answer
ExchangeResponses ==
    { Tokens("at1", rt, "scope1", x) :
        rt \in {"rt1", Undefined}, x \in ExpiryDates }

\* what oauth2Client.refreshAccessToken() can answer; credentials.expiry_date
\* is optional (0 is the missing one)
RefreshResponses ==
    { Tokens("at2", rt, "scope2", x) :
        rt \in {"rt2", Undefined}, x \in {0} \cup ExpiryDates }

\* interface AccountCredentials
AccountCredentials(email, client, tokens) ==
    [ email         |-> email,
      client_id     |-> client.client_id,
      client_secret |-> client.client_secret,
      access_token  |-> tokens.access_token,
      refresh_token |-> tokens.refresh_token,
      scope         |-> tokens.scope,
      token_type    |-> tokens.token_type,
      expiry_date   |-> tokens.expiry_date ]

\* the value null of "AccountCredentials | null"
NullAccount ==
    [ email |-> Undefined, client_id |-> Undefined, client_secret |-> Undefined,
      access_token |-> Undefined, refresh_token |-> Undefined,
      scope |-> Undefined, token_type |-> Undefined, expiry_date |-> 0 ]

\* JavaScript truthiness of a string-or-undefined value
Truthy(v) == v # Undefined /\ v # ""

(***************************************************************************)
(* accounts.json.  An AccountsConfig is a record of default_account (or    *)
(* Undefined) and accounts, the records in the insertion order of their    *)
(* keys (the order of Object.keys).  The file holds the JSON text:         *)
(* JSON.stringify leaves out a property whose value is undefined, so the   *)
(* text holds default_account as a list of zero or one value.              *)
(***************************************************************************)
EmptyConfig == [default_account |-> Undefined, accounts |-> <<>>]

\* accounts.json is not there: existsSync is false and nothing is read
NoFile == [exists |-> FALSE]

\* a file whose content JSON.parse throws on: an accounts.json cut off
\* after its default_account
CorruptFile ==
    [exists |-> TRUE, parses |-> FALSE, default_account |-> <<"a@x.com">>,
     accounts |-> <<>>]

\* JSON.stringify(config, null, 2)
Stringify(config) ==
    [ exists |-> TRUE, parses |-> TRUE,
      default_account |-> IF config.default_account = Undefined
                          THEN <<>> ELSE <<config.default_account>>,
      accounts |-> config.accounts ]

\* JSON.parse(content) as AccountsConfig
Parse(file) ==
    [ default_account |-> IF Len(file.default_account) = 0
                          THEN Undefined ELSE file.default_account[1],
      accounts |-> file.accounts ]

\* loadAccountsConfig without its try and catch: what can be read of the
\* content is returned
loadAccountsConfig_NoCatch(file) ==
    IF ~file.exists THEN EmptyConfig ELSE Parse(file)

\* the catch block returns { accounts: {} } as the missing file does
loadAccountsConfig(file) ==
    IF ~file.exists THEN EmptyConfig
    ELSE IF ~file.parses THEN EmptyConfig
    ELSE Parse(file)

saveAccountsConfig(config) == Stringify(config)

\* Object.keys(config.accounts)
Keys(config) == [i \in 1..Len(config.accounts) |-> config.accounts[i].email]

KeySet(config) == {config.accounts[i].email : i \in 1..Len(config.accounts)}

\* config.accounts[email]  (undefined is NullAccount)
Get(config, email) ==
    IF email \in KeySet(config)
    THEN LET i == CHOOSE j \in 1..Len(config.accounts) :
                      config.accounts[j].email = email
         IN  config.accounts[i]
    ELSE NullAccount

\* the assignment leaving the record of a key that exists as it is
Put_KeepsExisting(config, credentials) ==
    IF credentials.email \in KeySet(config)
    THEN config
    ELSE [config EXCEPT !.accounts = Append(config.accounts, credentials)]

\* the assignment putting a key that exists last
Put_MovesLast(config, credentials) ==
    [config EXCEPT !.accounts =
        Append(SelectSeq(config.accounts,
                         LAMBDA a : a.email # credentials.email),
               credentials)]

\* config.accounts[credentials.email] = credentials: an existing key keeps
\* its place, a new key goes last
Put(config, credentials) ==
    IF credentials.email \in KeySet(config)
    THEN [config EXCEPT !.accounts =
            [i \in 1..Len(config.accounts) |->
                IF config.accounts[i].email = credentials.email
                THEN credentials ELSE config.accounts[i]]]
    ELSE [config EXCEPT !.accounts = Append(config.accounts, credentials)]

\* delete config.accounts[email]
Delete(config, email) ==
    [config EXCEPT !.accounts =
        SelectSeq(config.accounts, LAMBDA a : a.email # email)]

\* saveAccount setting the default only when it creates accounts.json
saveAccount_FirstEver(file, credentials) ==
    LET config == Put(loadAccountsConfig(file), credentials)
        withDefault ==
            IF ~file.exists
            THEN [config EXCEPT !.default_account = credentials.email]
            ELSE config
    IN  saveAccountsConfig(withDefault)

\* saveAccount making every saved account the default
saveAccount_AlwaysDefault(file, credentials) ==
    LET config == Put(loadAccountsConfig(file), credentials)
    IN  saveAccountsConfig([config EXCEPT !.default_account = credentials.email])

saveAccount(file, credentials) ==
    LET config == Put(loadAccountsConfig(file), credentials)
        withDefault ==
            IF ~Truthy(config.default_account)
            THEN [config EXCEPT !.default_account = credentials.email]
            ELSE config
    IN  saveAccountsConfig(withDefault)

\* getAccount going on to the default account when the e-mail is not a key
getAccount_FallsBack(file, email) ==
    LET config == loadAccountsConfig(file)
    IN  IF Truthy(email) /\ Get(config, email) # NullAccount
        THEN Get(config, email)
        ELSE IF Truthy(config.default_account)
             THEN Get(config, config.default_account)
        ELSE IF Len(Keys(config)) > 0 THEN Get(config, Keys(config)[1])
        ELSE NullAccount

getAccount(file, email) ==
    LET config == loadAccountsConfig(file)
    IN  IF Truthy(email) THEN Get(config, email)
        ELSE IF Truthy(config.default_account)
             THEN Get(config, config.default_account)
        ELSE IF Len(Keys(config)) > 0 THEN Get(config, Keys(config)[1])
        ELSE NullAccount

\* setDefaultAccount: the file it writes; the file is untouched when it throws
\* setDefaultAccount without its 'Account not found' test
setDefaultFound_Unchecked(file, email) == TRUE

setDefaultFound(file, email) ==
    Get(loadAccountsConfig(file), email) # NullAccount

setDefaultAccount(file, email) ==
    saveAccountsConfig(
        [loadAccountsConfig(file) EXCEPT !.default_account = email])

\* removeAccount without its 'Account not found' test
removeFound_Unchecked(file, email) == TRUE

removeFound(file, email) ==
    Get(loadAccountsConfig(file), email) # NullAccount

\* removeAccount without its "update default if we deleted it" block
removeAccount_KeepsDefault(file, email) ==
    saveAccountsConfig(Delete(loadAccountsConfig(file), email))

\* removeAccount taking remaining[0] only when more than one account remains
removeAccount_NeedsTwo(file, email) ==
    LET config == Delete(loadAccountsConfig(file), email)
        remaining == Keys(config)
        updated ==
            IF config.default_account = email
            THEN [config EXCEPT !.default_account =
                    IF Len(remaining) > 1 THEN remaining[1] ELSE Undefined]
            ELSE config
    IN  saveAccountsConfig(updated)

\* removeAccount clearing the default it deleted without taking remaining[0]
removeAccount_ClearsDefault(file, email) ==
    LET config == Delete(loadAccountsConfig(file), email)
        updated ==
            IF config.default_account = email
            THEN [config EXCEPT !.default_account = Undefined]
            ELSE config
    IN  saveAccountsConfig(updated)

removeAccount(file, email) ==
    LET config == Delete(loadAccountsConfig(file), email)
        remaining == Keys(config)
        updated ==
            IF config.default_account = email
            THEN [config EXCEPT !.default_account =
                    IF Len(remaining) > 0 THEN remaining[1] ELSE Undefined]
            ELSE config
    IN  saveAccountsConfig(updated)

\* logout emptying the accounts of the file it leaves in place
logout_EmptiesAccounts(file) ==
    saveAccountsConfig([loadAccountsConfig(file) EXCEPT !.accounts = <<>>])

\* logout: unlinkSync(ACCOUNTS_PATH) when it exists
logout(file) == NoFile

\* listAccounts: Object.keys(config.accounts).map(...)
listAccounts(file) ==
    LET config == loadAccountsConfig(file)
    IN  [ i \in 1..Len(Keys(config)) |->
            [ email |-> Keys(config)[i],
              isDefault |-> Keys(config)[i] = config.default_account ] ]

(***************************************************************************)
(* loadClientCredentials: the app client of a login, from credentials.json *)
(* or from one client file.  A file is missing, is not JSON, or holds a     *)
(* JSON value: null, or an object with client_id and client_secret at the   *)
(* top or under installed or web.                                           *)
(***************************************************************************)
\* an object with (or, as Undefined, without) client_id and client_secret
Creds(client_id, client_secret) ==
    [present |-> TRUE, client_id |-> client_id, client_secret |-> client_secret]

\* a property that is not there
Absent == [present |-> FALSE, client_id |-> Undefined, client_secret |-> Undefined]

\* a file that is not there: existsSync is false and nothing is read
MissingFile == [exists |-> FALSE]

\* a file and what JSON.parse makes of its content
NotJson ==
    [exists |-> TRUE, parses |-> FALSE, isNull |-> FALSE,
     installed |-> Absent, web |-> Absent, flat |-> Absent]

JsonNull == [NotJson EXCEPT !.parses = TRUE, !.isNull = TRUE]

JsonObject(installed, web, flat) ==
    [exists |-> TRUE, parses |-> TRUE, isNull |-> FALSE,
     installed |-> installed, web |-> web, flat |-> flat]

\* the client files of one place, whose client is id/secret
ClientFiles(id, secret) ==
    { MissingFile, NotJson, JsonNull,
      JsonObject(Absent, Absent, Creds(id, secret)),
      JsonObject(Absent, Absent, Creds(id, Undefined)),
      JsonObject(Creds(id, secret), Absent, Creds(Undefined, Undefined)),
      JsonObject(Absent, Creds(id, secret), Creds(Undefined, Undefined)),
      JsonObject(Creds(id, Undefined), Creds(id, secret),
                 Creds(Undefined, Undefined)) }

\* credentials.json of the single-account versions: missing, not JSON,
\* tokens only, or tokens with the client saved by login --client
CredentialsFiles ==
    { MissingFile, NotJson,
      JsonObject(Absent, Absent, Creds(Undefined, Undefined)),
      JsonObject(Absent, Absent, Creds("idS", "secretS")) }

\* what loadClientCredentials returns or throws
NoResult ==
    [kind |-> "none", client_id |-> Undefined, client_secret |-> Undefined,
     error |-> "none", path |-> "none"]

Returned(creds) ==
    [NoResult EXCEPT !.kind = "returned", !.client_id = creds.client_id,
                     !.client_secret = creds.client_secret]

\* path: the place the message names
Thrown(error, path) ==
    [NoResult EXCEPT !.kind = "thrown", !.error = error, !.path = path]

\* loadStoredCredentials(): null when credentials.json is missing or is not
\* JSON
loadStoredCredentials(file) ==
    IF file.exists /\ file.parses /\ ~file.isNull THEN file.flat ELSE Absent

\* credentials.installed || credentials.web || credentials
Unwrap(file) ==
    IF file.installed.present THEN file.installed
    ELSE IF file.web.present THEN file.web
    ELSE file.flat

\* !creds.client_id || !creds.client_secret
LacksClient(creds) == ~Truthy(creds.client_id) \/ ~Truthy(creds.client_secret)

\* the try block of a candidate file that exists: what it returns or throws
\* (SyntaxError of JSON.parse, TypeError of null.installed, or the 'Invalid
\* credentials format' error)
ReadClientFile(file) ==
    IF ~file.parses THEN Thrown("SyntaxError", "none")
    ELSE IF file.isNull THEN Thrown("TypeError", "none")
    ELSE IF LacksClient(Unwrap(file))
         THEN Thrown("InvalidCredentialFormat", "none")
    ELSE Returned(Unwrap(file))

\* step 2: the path of --client; every error is thrown again as 'Failed to
\* load client credentials from <path>: <message>'
loadExplicit(file) ==
    IF file.exists
    THEN IF ReadClientFile(file).kind = "returned"
         THEN ReadClientFile(file)
         ELSE Thrown(ReadClientFile(file).error, "explicit")
    ELSE Thrown("ClientFileNotFound", "explicit")

\* the env/default step going on to ./client.json when the file of the
\* environment variable is missing
loadEnvOrDefault_FallsThrough(envPath, envFile, defaultFile) ==
    LET file == IF envPath /\ envFile.exists THEN envFile ELSE defaultFile
        path == IF envPath /\ envFile.exists THEN "env" ELSE "default"
        read == ReadClientFile(file)
    IN  IF file.exists /\ read.kind = "returned" THEN read
        ELSE IF file.exists /\ read.error = "InvalidCredentialFormat"
             THEN Thrown("InvalidCredentialFormat", path)
        ELSE Thrown("ConfigurationError", path)

\* step 3: credentialPath = envPath || DEFAULT_CLIENT_CONFIG_PATH; only the
\* 'Invalid credentials format' error leaves the try block, anything else
\* ends in the 'credentials not found' error that names credentialPath
loadEnvOrDefault(envPath, envFile, defaultFile) ==
    LET file == IF envPath THEN envFile ELSE defaultFile
        path == IF envPath THEN "env" ELSE "default"
        read == ReadClientFile(file)
    IN  IF file.exists /\ read.kind = "returned" THEN read
        ELSE IF file.exists /\ read.error = "InvalidCredentialFormat"
             THEN Thrown("InvalidCredentialFormat", path)
        ELSE Thrown("ConfigurationError", path)

\* loadClientCredentials(clientPath) over the files of in
loadClientCredentials(in) ==
    LET storedCredentials == loadStoredCredentials(in.credentialsFile)
    IN  IF storedCredentials.present /\ ~LacksClient(storedCredentials)
        THEN Returned(storedCredentials)
        ELSE IF in.clientPath THEN loadExplicit(in.clientFile)
        ELSE loadEnvOrDefault(in.envPath, in.envFile, in.defaultFile)

\* no loadClientCredentials call: nothing on disk, no flag, no variable
NoLoad ==
    [credentialsFile |-> MissingFile,
     clientPath |-> FALSE, clientFile |-> MissingFile,
     envPath |-> FALSE, envFile |-> MissingFile,
     defaultFile |-> MissingFile,
     result |-> NoResult]

\* what a loadClientCredentials call can find
Loads ==
    { [credentialsFile |-> c, clientPath |-> x.given, clientFile |-> x.file,
       envPath |-> e.given, envFile |-> e.file, defaultFile |-> d,
       result |-> NoResult] :
        c \in CredentialsFiles,
        x \in {[given |-> FALSE, file |-> MissingFile]} \cup
              {[given |-> TRUE, file |-> f] : f \in ClientFiles("idX", "secretX")},
        e \in {[given |-> FALSE, file |-> MissingFile]} \cup
              {[given |-> TRUE, file |-> f] : f \in ClientFiles("idE", "secretE")},
        d \in ClientFiles("idD", "secretD") }

\* isAuthenticated(): loadStoredCredentials() !== null, over credentials.json
isAuthenticated(file) == loadStoredCredentials(file).present

(***************************************************************************)
(* State.                                                                  *)
(***************************************************************************)
VARIABLES
    accountsFile,   \* ~/.config/gscli/accounts.json
    now,            \* Date.now()
    resolve,        \* the getAuthenticatedClient call of the running command
    command,        \* the last gscli auth set-default or remove, and its end
    loader,         \* a loadClientCredentials call: what it finds, its result
    writers,        \* the store operation of each of two other processes
    flow,           \* the authenticate call of the running login command
    handlers        \* the request handler of each callback request

vars ==
    <<accountsFile, now, resolve, command, loader, writers, flow, handlers>>

storeVars == <<accountsFile, now, resolve, command>>
authVars == <<flow, handlers>>

\* the token fields of a client (oauth2Client.credentials)
ClientCredentials(c) ==
    [ access_token |-> c.access_token, refresh_token |-> c.refresh_token,
      scope |-> c.scope, token_type |-> c.token_type,
      expiry_date |-> c.expiry_date ]

NoCredentials == ClientCredentials(NullAccount)

NoRefreshRequest ==
    [client_id |-> Undefined, client_secret |-> Undefined,
     refresh_token |-> Undefined]

IdleResolve ==
    [ pc |-> "idle",            \* idle | refreshing | returned | failed
      accountEmail |-> Undefined,
      account |-> NullAccount,  \* what getAccount returned
      checkedAt |-> 0,          \* the Date.now() the expiry was compared with
      refreshCalls |-> 0,       \* refreshAccessToken calls of this call
      request |-> NoRefreshRequest, \* what the refresh call was made with
      client |-> NoCredentials, \* the credentials of the returned client
      error |-> "none",         \* the error the call throws
      names |-> Undefined ]     \* the e-mail the error message carries

\* the expiry test with <= for <
NeedsRefresh_Inclusive(account, t) ==
    account.expiry_date # 0 /\ account.expiry_date <= t

\* account.expiry_date && account.expiry_date < Date.now()
NeedsRefresh(account, t) == account.expiry_date # 0 /\ account.expiry_date < t

\* the refresh made with the app client of client.json (createOAuth2Client)
\* instead of the client stored with the account
RefreshRequest_AppClient(account) ==
    [ client_id |-> "id1", client_secret |-> "secret1",
      refresh_token |-> account.refresh_token ]

\* new google.auth.OAuth2(account.client_id, account.client_secret, ...)
\* with setCredentials({... refresh_token: account.refresh_token ...}):
\* what refreshAccessToken sends
RefreshRequest(account) ==
    [ client_id |-> account.client_id, client_secret |-> account.client_secret,
      refresh_token |-> account.refresh_token ]

\* getAuthenticatedClient up to its first await (or its return)
ResolveStart(accountEmail) ==
    /\ resolve.pc # "refreshing"
    /\ LET account == getAccount(accountsFile, accountEmail)
       IN  resolve' =
             IF account = NullAccount
             THEN [IdleResolve EXCEPT
                     !.pc = "failed", !.accountEmail = accountEmail,
                     !.error = IF Truthy(accountEmail)
                               THEN "AccountNotFound"
                               ELSE "NoAccountsConfigured",
                     !.names = IF Truthy(accountEmail)
                               THEN accountEmail ELSE Undefined]
             ELSE IF NeedsRefresh(account, now)
             THEN [IdleResolve EXCEPT
                     !.pc = "refreshing", !.accountEmail = accountEmail,
                     !.account = account, !.checkedAt = now,
                     !.refreshCalls = 1,
                     !.request = RefreshRequest(account),
                     !.client = ClientCredentials(account)]
             ELSE [IdleResolve EXCEPT
                     !.pc = "returned", !.accountEmail = accountEmail,
                     !.account = account, !.checkedAt = now,
                     !.client = ClientCredentials(account)]
    /\ UNCHANGED <<accountsFile, now, command, authVars, loader, writers>>

\* updatedAccount that leaves scope and token_type as stored
UpdatedAccount_KeepsScope(account, credentials) ==
    [ account EXCEPT
        !.access_token = credentials.access_token,
        !.refresh_token = IF Truthy(credentials.refresh_token)
                          THEN credentials.refresh_token
                          ELSE account.refresh_token,
        !.expiry_date = credentials.expiry_date ]

\* updatedAccount with refresh_token: credentials.refresh_token, without the
\* "|| account.refresh_token"
UpdatedAccount_TakesResponseToken(account, credentials) ==
    [ account EXCEPT
        !.access_token = credentials.access_token,
        !.refresh_token = credentials.refresh_token,
        !.scope = credentials.scope,
        !.token_type = credentials.token_type,
        !.expiry_date = credentials.expiry_date ]

\* updatedAccount of getAuthenticatedClient
UpdatedAccount(account, credentials) ==
    [ account EXCEPT
        !.access_token = credentials.access_token,
        !.refresh_token = IF Truthy(credentials.refresh_token)
                          THEN credentials.refresh_token
                          ELSE account.refresh_token,
        !.scope = credentials.scope,
        !.token_type = credentials.token_type,
        !.expiry_date = credentials.expiry_date ]

\* refreshAccessToken resolves: saveAccount(updatedAccount);
\* oauth2Client.setCredentials(credentials)
RefreshSucceeds(credentials) ==
    /\ resolve.pc = "refreshing"
    /\ accountsFile' =
         saveAccount(accountsFile, UpdatedAccount(resolve.account, credentials))
    /\ resolve' = [resolve EXCEPT !.pc = "returned", !.client = credentials]
    /\ UNCHANGED <<now, command, authVars, loader, writers>>

\* the catch block dropping the stale access_token from the store before
\* it throws
RefreshFails_ClearsToken ==
    /\ resolve.pc = "refreshing"
    /\ accountsFile' =
         saveAccount(accountsFile,
                     [resolve.account EXCEPT !.access_token = Undefined])
    /\ resolve' = [resolve EXCEPT !.pc = "failed",
                                  !.client = NoCredentials,
                                  !.error = "TokenRefreshFailed",
                                  !.names = resolve.account.email]
    /\ UNCHANGED <<now, command, authVars, loader, writers>>

\* refreshAccessToken rejects: the catch block throws
RefreshFails ==
    /\ resolve.pc = "refreshing"
    /\ resolve' = [resolve EXCEPT !.pc = "failed",
                                  !.client = NoCredentials,
                                  !.error = "TokenRefreshFailed",
                                  !.names = resolve.account.email]
    /\ UNCHANGED <<accountsFile, now, command, authVars, loader, writers>>

(***************************************************************************)
(* The store commands of other gscli invocations.                          *)
(***************************************************************************)
\* a login that completed: saveAccount(accountCredentials)
SaveAccount(credentials) ==
    /\ accountsFile' = saveAccount(accountsFile, credentials)
    /\ UNCHANGED <<now, resolve, command, authVars, loader, writers>>

\* gscli auth set-default <email>
SetDefault(email) ==
    /\ setDefaultFound(accountsFile, email)
    /\ accountsFile' = setDefaultAccount(accountsFile, email)
    /\ UNCHANGED <<now, resolve, command, authVars, loader, writers>>

\* gscli auth remove <email>
Remove(email) ==
    /\ removeFound(accountsFile, email)
    /\ accountsFile' = removeAccount(accountsFile, email)
    /\ UNCHANGED <<now, resolve, command, authVars, loader, writers>>

\* no command has run
NoCommand ==
    [name |-> "none", email |-> Undefined, error |-> "none", accounts |-> <<>>,
     authenticated |-> FALSE]

\* gscli auth set-default <email>, the whole command: setDefaultAccount
\* writes, or throws 'Account not found' and the catch block exits with 1
SetDefaultCommand(email) ==
    /\ IF setDefaultFound(accountsFile, email)
       THEN /\ accountsFile' = setDefaultAccount(accountsFile, email)
            /\ command' = [NoCommand EXCEPT !.name = "set-default",
                                            !.email = email]
       ELSE /\ accountsFile' = accountsFile
            /\ command' = [NoCommand EXCEPT !.name = "set-default",
                                            !.email = email,
                                            !.error = "AccountNotFound"]
    /\ UNCHANGED <<now, resolve, authVars, loader, writers>>

\* gscli auth remove <email>, the whole command
RemoveCommand(email) ==
    /\ IF removeFound(accountsFile, email)
       THEN /\ accountsFile' = removeAccount(accountsFile, email)
            /\ command' = [NoCommand EXCEPT !.name = "remove",
                                            !.email = email]
       ELSE /\ accountsFile' = accountsFile
            /\ command' = [NoCommand EXCEPT !.name = "remove",
                                            !.email = email,
                                            !.error = "AccountNotFound"]
    /\ UNCHANGED <<now, resolve, authVars, loader, writers>>

\* gscli auth list, the whole command: what listAccounts returned
ListCommand ==
    /\ command' = [NoCommand EXCEPT !.name = "list",
                                    !.accounts = listAccounts(accountsFile)]
    /\ UNCHANGED <<accountsFile, now, resolve, authVars, loader, writers>>

\* gscli auth status, the whole command: what isAuthenticated returned
StatusCommand ==
    /\ command' = [NoCommand EXCEPT
                     !.name = "status",
                     !.authenticated = isAuthenticated(loader.credentialsFile)]
    /\ UNCHANGED <<accountsFile, now, resolve, authVars, loader, writers>>

\* gscli auth logout: accounts.json and the old credentials.json are removed
Logout ==
    /\ accountsFile' = logout(accountsFile)
    /\ loader' = [loader EXCEPT !.credentialsFile = MissingFile]
    /\ UNCHANGED <<now, resolve, command, authVars, writers>>

Tick ==
    /\ now < MaxTime
    /\ now' = now + 1
    /\ UNCHANGED <<accountsFile, resolve, command, authVars, loader, writers>>

(***************************************************************************)
(* authenticate: one local HTTP listener racing a 5 minute timer.  Every   *)
(* callback request runs the async request handler; a handler that awaits  *)
(* getToken or getUserEmail leaves the event loop to the timer and to the  *)
(* other requests.                                                         *)
(***************************************************************************)
Requests == 1..MaxRequests

\* the reasons authenticate rejects with
Failures ==
    { "MissingAuthorizationCode", "TokenExchangeFailed", "MissingRefreshToken",
      "IdentityLookupError", "AuthenticationTimeout" }

\* res.writeHead(status) and res.end(body)
NoCodePage == [status |-> 400, body |-> "<h1>Error: No authorization code received</h1>"]
NoRefreshTokenPage == [status |-> 400, body |-> "<h1>Error: No refresh token received</h1>"]
ErrorPage == [status |-> 500, body |-> "<h1>Error during authentication</h1>"]
SuccessPage == [status |-> 200, body |-> "Authentication Successful"]
NoPage == [status |-> 0, body |-> ""]

NoTokens == ClientCredentials(NullAccount)

NoClient == [client_id |-> Undefined, client_secret |-> Undefined]

IdleHandler ==
    [ pc |-> "none",        \* none | ignored | exchange | lookup | done
      url |-> "none",       \* req.url
      exchange |-> "none",  \* how getToken ended: none | failed | returned
      tokens |-> NoTokens,  \* what getToken answered
      lookup |-> "none",    \* how getUserEmail ended: none | failed | returned
      userEmail |-> Undefined,  \* what getUserEmail answered
      response |-> NoPage,  \* what the browser was sent
      reason |-> "none",    \* how the handler ended: "success" or a failure
      lookups |-> 0,        \* getUserEmail calls
      saves |-> 0 ]         \* saveAccount calls

NoFlow ==
    [ promise |-> "none",       \* none | pending | resolved | rejected
      outcome |-> "none",       \* "success" or the failure the caller gets
      first |-> "none",         \* how the first handler or timer to end ended
      timer |-> "unset",        \* unset | armed | cleared | fired
      listening |-> FALSE,      \* the server holds 127.0.0.1:8080
      closeCalls |-> 0,         \* server.close() calls
      closeCallbacks |-> 0,     \* () => resolve() waiting for 'close'
      settleCalls |-> 0,        \* resolve() and reject() calls
      running |-> FALSE,        \* the login process is alive
      clientConfig |-> NoClient,
      storeAtStart |-> NoFile ] \* accounts.json when authenticate was called

\* clearTimeout(timeoutId)
ClearTimeout(f) ==
    IF f.timer = "armed" THEN [f EXCEPT !.timer = "cleared"] ELSE f

\* server.close(): the listener is released at once
CloseServer(f) ==
    [f EXCEPT !.listening = FALSE, !.closeCalls = f.closeCalls + 1]

\* server.close(() => { resolve(); })
CloseServerThenResolve(f) ==
    [CloseServer(f) EXCEPT !.closeCallbacks = f.closeCallbacks + 1]

\* reject(error).  The login command is the only caller: its catch block
\* prints the message and calls process.exit(1) before any other callback
\* of the process runs.
Reject(f, reason) ==
    IF f.promise = "pending"
    THEN [f EXCEPT !.promise = "rejected", !.outcome = reason,
                   !.settleCalls = f.settleCalls + 1, !.running = FALSE]
    ELSE [f EXCEPT !.settleCalls = f.settleCalls + 1]

\* resolve(): the login command prints its message and returns; the process
\* lives on while callbacks are pending
Resolve(f) ==
    IF f.promise = "pending"
    THEN [f EXCEPT !.promise = "resolved", !.outcome = "success",
                   !.settleCalls = f.settleCalls + 1]
    ELSE [f EXCEPT !.settleCalls = f.settleCalls + 1]

\* a handler or the timer callback reaches one of its endings
Ending(f, how) == [f EXCEPT !.first = IF @ = "none" THEN how ELSE @]

\* a failure ending without server.close()
FailFlow_KeepsListening(f, reason) ==
    Reject(ClearTimeout(Ending(f, reason)), reason)

\* the failure endings of the handler: page, clearTimeout, server.close(),
\* reject
FailFlow(f, reason) ==
    Reject(CloseServer(ClearTimeout(Ending(f, reason))), reason)

\* a failure ending that never answers the browser
FailHandler_NoResponse(h, page, reason) ==
    [h EXCEPT !.pc = "done", !.reason = reason]

FailHandler(h, page, reason) ==
    [h EXCEPT !.pc = "done", !.response = page, !.reason = reason]

\* the refresh_token check left out
LacksRefreshToken_Unchecked(tokens) == FALSE

\* !tokens.refresh_token
LacksRefreshToken(tokens) == ~Truthy(tokens.refresh_token)

\* the process of the previous login command has ended: it exited, or
\* nothing is left on its event loop
Ended(f, hs) ==
    \/ ~f.running
    \/ /\ f.promise = "resolved"
       /\ f.timer # "armed"
       /\ ~f.listening
       /\ f.closeCallbacks = 0
       /\ \A r \in Requests : hs[r].pc \notin {"exchange", "lookup"}

\* gscli auth login: authenticate(clientPath) up to the return of the promise
StartAuthenticate(clientConfig) ==
    /\ Ended(flow, handlers)
    /\ ~isAuthenticated(loader.credentialsFile)   \* else 'already authenticated'
    /\ ~flow.listening          \* server.listen(8080, '127.0.0.1') binds
    /\ flow' = [NoFlow EXCEPT
                  !.promise = "pending",
                  !.timer = "armed", !.listening = TRUE, !.running = TRUE,
                  !.clientConfig = clientConfig,
                  !.storeAtStart = accountsFile]
    /\ handlers' = [r \in Requests |-> IdleHandler]
    /\ UNCHANGED <<storeVars, loader, writers>>

\* the urls a request can carry
Urls == {"/favicon.ico", "/", "/?code=4/0Ab"}

HasCode(url) == url = "/?code=4/0Ab"

\* a request reaches the listener: the handler up to its first await
Request(r, url) ==
    /\ flow.running /\ flow.listening
    /\ handlers[r].pc = "none"
    /\ \A q \in Requests : q < r => handlers[q].pc # "none"
    /\ IF url = "/favicon.ico"
       THEN /\ handlers' = [handlers EXCEPT ![r].pc = "ignored",
                                            ![r].url = url]
            /\ UNCHANGED flow
       ELSE IF ~HasCode(url)
       THEN /\ handlers' = [handlers EXCEPT ![r] =
                   FailHandler([@ EXCEPT !.url = url],
                               NoCodePage, "MissingAuthorizationCode")]
            /\ flow' = FailFlow(flow, "MissingAuthorizationCode")
       ELSE /\ handlers' = [handlers EXCEPT ![r].pc = "exchange",
                                            ![r].url = url]
            /\ UNCHANGED flow
    /\ UNCHANGED <<storeVars, loader, writers>>

\* the catch block without clearTimeout(timeoutId)
ExchangeFails_TimerArmed(r) ==
    /\ flow.running
    /\ handlers[r].pc = "exchange"
    /\ handlers' = [handlers EXCEPT ![r] =
            FailHandler([@ EXCEPT !.exchange = "failed"],
                        ErrorPage, "TokenExchangeFailed")]
    /\ flow' = Reject(CloseServer(Ending(flow, "TokenExchangeFailed")),
                      "TokenExchangeFailed")
    /\ UNCHANGED <<storeVars, loader, writers>>

\* await oauth2Client.getToken(code) throws: the catch block
ExchangeFails(r) ==
    /\ flow.running
    /\ handlers[r].pc = "exchange"
    /\ handlers' = [handlers EXCEPT ![r] =
            FailHandler([@ EXCEPT !.exchange = "failed"],
                        ErrorPage, "TokenExchangeFailed")]
    /\ flow' = FailFlow(flow, "TokenExchangeFailed")
    /\ UNCHANGED <<storeVars, loader, writers>>

\* await oauth2Client.getToken(code) returns tokens: up to the next await
ExchangeReturns(r, tokens) ==
    /\ flow.running
    /\ handlers[r].pc = "exchange"
    /\ IF LacksRefreshToken(tokens)
       THEN /\ handlers' = [handlers EXCEPT ![r] =
                   FailHandler([@ EXCEPT !.exchange = "returned",
                                         !.tokens = tokens],
                               NoRefreshTokenPage, "MissingRefreshToken")]
            /\ flow' = FailFlow(flow, "MissingRefreshToken")
       ELSE /\ handlers' = [handlers EXCEPT ![r].pc = "lookup",
                                            ![r].exchange = "returned",
                                            ![r].tokens = tokens,
                                            ![r].lookups = @ + 1]
            /\ UNCHANGED flow
    /\ UNCHANGED <<storeVars, loader, writers>>

\* the account saved before the identity is known, then the catch block
LookupFails_SavesFirst(r) ==
    /\ flow.running
    /\ handlers[r].pc = "lookup"
    /\ accountsFile' =
         saveAccount(accountsFile,
             AccountCredentials("unknown", flow.clientConfig, handlers[r].tokens))
    /\ handlers' = [handlers EXCEPT ![r] =
            FailHandler([@ EXCEPT !.lookup = "failed", !.saves = @ + 1],
                        ErrorPage, "IdentityLookupError")]
    /\ flow' = FailFlow(flow, "IdentityLookupError")
    /\ UNCHANGED <<now, resolve, command, loader, writers>>

\* await getUserEmail(tokens.access_token) throws: the catch block
LookupFails(r) ==
    /\ flow.running
    /\ handlers[r].pc = "lookup"
    /\ handlers' = [handlers EXCEPT ![r] =
            FailHandler([@ EXCEPT !.lookup = "failed"],
                        ErrorPage, "IdentityLookupError")]
    /\ flow' = FailFlow(flow, "IdentityLookupError")
    /\ UNCHANGED <<storeVars, loader, writers>>

\* the success ending calling resolve() at once and not from the callback
\* of server.close
SucceedFlow_ResolvesAtOnce(f) ==
    Resolve(CloseServer(ClearTimeout(Ending(f, "success"))))

\* the success ending without clearTimeout(timeoutId)
SucceedFlow_TimerArmed(f) == CloseServerThenResolve(Ending(f, "success"))

\* the success ending of the handler, after saveAccount and the page
SucceedFlow(f) ==
    CloseServerThenResolve(ClearTimeout(Ending(f, "success")))

\* await getUserEmail(...) returns the e-mail: saveAccount, the success
\* page, clearTimeout, server.close(callback)
LookupReturns(r, userEmail) ==
    /\ flow.running
    /\ handlers[r].pc = "lookup"
    /\ accountsFile' =
         saveAccount(accountsFile,
             AccountCredentials(userEmail, flow.clientConfig, handlers[r].tokens))
    /\ handlers' = [handlers EXCEPT ![r].pc = "done",
                                    ![r].lookup = "returned",
                                    ![r].userEmail = userEmail,
                                    ![r].response = SuccessPage,
                                    ![r].reason = "success",
                                    ![r].saves = @ + 1]
    /\ flow' = SucceedFlow(flow)
    /\ UNCHANGED <<now, resolve, command, loader, writers>>

\* the server emits 'close': the callbacks of server.close(callback) run
ServerClosed ==
    /\ flow.running
    /\ flow.closeCallbacks > 0
    /\ flow' = [Resolve(flow) EXCEPT
                  !.closeCallbacks = 0,
                  !.settleCalls = flow.settleCalls + flow.closeCallbacks]
    /\ UNCHANGED <<handlers, storeVars, loader, writers>>

\* the timer callback without server.close()
TimeoutFlow_LeavesListener(f) ==
    Reject([Ending(f, "AuthenticationTimeout") EXCEPT !.timer = "fired"],
           "AuthenticationTimeout")

\* the timer of setTimeout(..., 5 * 60 * 1000) fires
TimeoutFlow(f) ==
    Reject(CloseServer([Ending(f, "AuthenticationTimeout")
                          EXCEPT !.timer = "fired"]),
           "AuthenticationTimeout")

Timeout ==
    /\ flow.running
    /\ flow.timer = "armed"
    /\ flow' = TimeoutFlow(flow)
    /\ UNCHANGED <<handlers, storeVars, loader, writers>>

\* gscli auth login [--client <path>] up to the return of
\* loadClientCredentials
LoadClient ==
    /\ loader.result = NoResult
    /\ loader' = [loader EXCEPT !.result = loadClientCredentials(loader)]
    /\ UNCHANGED <<storeVars, authVars, writers>>

(***************************************************************************)
(* Specifications.                                                         *)
(***************************************************************************)
\* the two processes whose store operations interleave
Writers == {1, 2}

\* writers maps each process that has started a store operation to its last
\* one: pc (loaded | written | failed), name (save | refresh | set-default |
\* remove), email, credentials, and read, the accounts.json that
\* loadAccountsConfig read.  No process has started one:
NoWriters == <<>>

\* the process is between the load and the write of an operation
HasLoaded(p) == p \in DOMAIN writers /\ writers[p].pc = "loaded"

\* the records the racing processes save: one login per e-mail, and the
\* write-back of a refresh of each
RaceLogins ==
    { AccountCredentials(email, [client_id |-> "id1", client_secret |-> "secret1"],
                         Tokens("at1", "rt1", "scope1", 1)) : email \in Emails }

RaceRefreshes ==
    { UpdatedAccount(account, Tokens("at2", Undefined, "scope2", MaxTime)) :
        account \in RaceLogins }

\* whether the operation finds its account in what it loaded
WriterFound(name, read, email) ==
    CASE name = "set-default" -> setDefaultFound(read, email)
      [] name = "remove"      -> removeFound(read, email)
      [] OTHER                -> TRUE

\* the operation: loadAccountsConfig(), up to saveAccountsConfig(config) or
\* to the throw of 'Account not found'
WriterLoads(p, name, email, credentials) ==
    /\ ~HasLoaded(p)
    /\ writers' = [q \in DOMAIN writers \cup {p} |->
          IF q = p
          THEN [ pc |-> IF WriterFound(name, accountsFile, email)
                        THEN "loaded" ELSE "failed",
                 name |-> name, email |-> email, credentials |-> credentials,
                 read |-> accountsFile ]
          ELSE writers[q]]
    /\ UNCHANGED <<storeVars, authVars, loader>>

\* the write computed from the file of now and not from the one loaded
WriterResult_Reloads(w, file) ==
    CASE w.name \in {"save", "refresh"} -> saveAccount(file, w.credentials)
      [] w.name = "set-default"         -> setDefaultAccount(file, w.email)
      [] w.name = "remove"              -> removeAccount(file, w.email)

\* what the operation writes: computed from the config it loaded; file is
\* accounts.json at the time of the write
WriterResult(w, file) ==
    CASE w.name \in {"save", "refresh"} -> saveAccount(w.read, w.credentials)
      [] w.name = "set-default"         -> setDefaultAccount(w.read, w.email)
      [] w.name = "remove"              -> removeAccount(w.read, w.email)

\* saveAccountsConfig(config): writeFileSync over whatever the file holds
WriterWrites(p) ==
    /\ HasLoaded(p)
    /\ accountsFile' = WriterResult(writers[p], accountsFile)
    /\ writers' = [writers EXCEPT ![p].pc = "written"]
    /\ UNCHANGED <<now, resolve, command, authVars, loader>>

Init ==
    /\ accountsFile = NoFile
    /\ now = 0
    /\ resolve = IdleResolve
    /\ command = NoCommand
    /\ loader = NoLoad
    /\ writers = NoWriters
    /\ flow = NoFlow
    /\ handlers = [r \in Requests |-> IdleHandler]

\* the accounts a completed login saves: the exchange answered with a
\* refresh_token
LoginAccounts ==
    { AccountCredentials(e, c, t) :
        e \in Emails, c \in AppClients,
        t \in {x \in ExchangeResponses : Truthy(x.refresh_token)} }

\* the credential store under the commands that read and write it
StoreNext ==
    \/ \E credentials \in LoginAccounts : SaveAccount(credentials)
    \/ \E email \in Emails : SetDefault(email)
    \/ \E email \in Emails : Remove(email)
    \/ Logout
    \/ \E accountEmail \in Emails \cup {Undefined} : ResolveStart(accountEmail)
    \/ \E credentials \in RefreshResponses : RefreshSucceeds(credentials)
    \/ RefreshFails
    \/ Tick

SpecStore == Init /\ [][StoreNext]_vars

\* login commands, one after the other
AuthNext ==
    \/ \E clientConfig \in AppClients : StartAuthenticate(clientConfig)
    \/ \E r \in Requests, url \in Urls : Request(r, url)
    \/ \E r \in Requests : ExchangeFails(r)
    \/ \E r \in Requests, tokens \in ExchangeResponses : ExchangeReturns(r, tokens)
    \/ \E r \in Requests : LookupFails(r)
    \/ \E r \in Requests, userEmail \in Emails : LookupReturns(r, userEmail)
    \/ ServerClosed
    \/ Timeout

SpecAuth == Init /\ [][AuthNext]_vars

\* the network call handler r awaits comes back, one way or the other
NetworkStep(r) ==
    \/ ExchangeFails(r)
    \/ \E tokens \in ExchangeResponses : ExchangeReturns(r, tokens)
    \/ LookupFails(r)
    \/ \E userEmail \in Emails : LookupReturns(r, userEmail)

\* every request that reached the listener has its response: no connection
\* is waiting for one
Answered ==
    \A r \in Requests : handlers[r].pc \notin {"ignored", "exchange", "lookup"}

\* The login flow with what its scheduling guarantees: an armed timer
\* fires, an awaited network call comes back, and the server emits 'close'
\* once no connection waits for a response.  server.close() ends no
\* connection that waits for a response, and the handler ends none itself.
SpecAuthLive ==
    /\ Init /\ [][AuthNext]_vars
    /\ WF_vars(Timeout)
    /\ WF_vars(Answered /\ ServerClosed)
    /\ \A r \in Requests : WF_vars(NetworkStep(r))

\* the records saveAccount is called with: those of a login and those of
\* the write-back of a refresh
SavedAccounts ==
    LoginAccounts \cup
    { UpdatedAccount(a, r) : a \in LoginAccounts, r \in RefreshResponses }

\* the account commands on the store, one gscli invocation after the other
AccountsNext ==
    \/ \E credentials \in SavedAccounts : SaveAccount(credentials)
    \/ \E email \in Emails : SetDefaultCommand(email)
    \/ \E email \in Emails : RemoveCommand(email)
    \/ Logout

SpecAccounts == Init /\ [][AccountsNext]_vars

\* the account commands of gscli and the selection of an account, one
\* invocation after the other, on a store that was missing or corrupt
InitList ==
    /\ accountsFile \in {NoFile, CorruptFile}
    /\ now = 0
    /\ resolve = IdleResolve
    /\ command = NoCommand
    /\ loader = NoLoad
    /\ writers = NoWriters
    /\ flow = NoFlow
    /\ handlers = [r \in Requests |-> IdleHandler]

ListNext ==
    \/ \E credentials \in LoginAccounts : SaveAccount(credentials)
    \/ \E email \in Emails : SetDefaultCommand(email)
    \/ \E email \in Emails : RemoveCommand(email)
    \/ Logout
    \/ ListCommand
    \/ StatusCommand
    \/ \E accountEmail \in Emails \cup {Undefined} : ResolveStart(accountEmail)

SpecList == InitList /\ [][ListNext]_vars

\* two processes whose store operations interleave between the load and
\* the write of the file
RaceNext ==
    \/ \E p \in Writers, credentials \in RaceLogins :
          WriterLoads(p, "save", credentials.email, credentials)
    \/ \E p \in Writers, credentials \in RaceRefreshes :
          WriterLoads(p, "refresh", credentials.email, credentials)
    \/ \E p \in Writers, email \in Emails :
          WriterLoads(p, "set-default", email, NullAccount)
    \/ \E p \in Writers, email \in Emails :
          WriterLoads(p, "remove", email, NullAccount)
    \/ \E p \in Writers : WriterWrites(p)

SpecRace == Init /\ [][RaceNext]_vars

\* the values of type AccountsConfig an accounts.json can hold: any
\* default_account over any accounts of distinct keys, each record under the
\* key of its email
AccountLists ==
    {<<>>} \cup { <<a>> : a \in LoginAccounts }
           \cup { <<p[1], p[2]>> :
                     p \in {q \in LoginAccounts \X LoginAccounts :
                              q[1].email # q[2].email} }

Snapshots ==
    {NoFile} \cup
    { Stringify([default_account |-> d, accounts |-> l]) :
        d \in Emails \cup {Undefined}, l \in AccountLists }

InitSelect ==
    /\ accountsFile \in Snapshots
    /\ now = 0
    /\ resolve = IdleResolve
    /\ command = NoCommand
    /\ loader = NoLoad
    /\ writers = NoWriters
    /\ flow = NoFlow
    /\ handlers = [r \in Requests |-> IdleHandler]

\* getAuthenticatedClient over any accounts.json
SelectNext ==
    \/ \E accountEmail \in Emails \cup {Undefined} : ResolveStart(accountEmail)
    \/ \E credentials \in RefreshResponses : RefreshSucceeds(credentials)
    \/ RefreshFails
    \/ Tick

SpecSelect == InitSelect /\ [][SelectNext]_vars

\* a login starts with any client files on disk, on a store that holds no
\* account or the account of an earlier login
InitClient ==
    /\ accountsFile \in
         {NoFile} \cup {saveAccount(NoFile, a) : a \in LoginAccounts}
    /\ now = 0
    /\ resolve = IdleResolve
    /\ command = NoCommand
    /\ loader \in Loads
    /\ writers = NoWriters
    /\ flow = NoFlow
    /\ handlers = [r \in Requests |-> IdleHandler]

ClientNext == LoadClient

SpecClient == InitClient /\ [][ClientNext]_vars

(***************************************************************************)
(* Properties.                                                             *)
(***************************************************************************)
Config == loadAccountsConfig(accountsFile)

Settled == flow.promise \in {"resolved", "rejected"}

\* C1: starting from an empty store, after any sequence of save, setDefault,
\* remove, refresh inside resolve and logout, default_account, if set, is a
\* key of accounts.
C1_DefaultIsKey ==
    Config.default_account # Undefined
        => Config.default_account \in KeySet(Config)

\* C1 witness: the default was moved to the second key of a store with two
\* accounts.
C1_Witness ==
    /\ Keys(Config) = <<"a@x.com", "b@x.com">>
    /\ Config.default_account = "b@x.com"

\* C2 as claimed: an authenticate call settles once, with the outcome of
\* whichever of the request handlers and the timer ended first, and once it
\* has terminated there is no further resolve or reject call, no further
\* write of the store and no further browser response.
C2_SettlesExactlyOnce ==
    /\ [](flow.settleCalls <= 1)
    /\ [](Settled => flow.outcome = flow.first)
    /\ [][ (Settled /\ flow'.promise = flow.promise)
             => /\ flow'.settleCalls = flow.settleCalls
                /\ accountsFile' = accountsFile
                /\ \A r \in Requests :
                     handlers'[r].response = handlers[r].response ]_vars

\* C3 as claimed: when authenticate ends with a failure, the store is what it
\* was when authenticate was called.
C3_FailureLeavesStore ==
    flow.outcome \in Failures => accountsFile = flow.storeAtStart

\* getToken answered the handler with tokens that lack a refresh_token
GotNoRefreshToken(h) ==
    h.exchange = "returned" /\ ~Truthy(h.tokens.refresh_token)

\* C4: the handler whose token exchange returns without a refresh_token
\* answers the no-refresh-token page and rejects with MissingRefreshToken
\* (the outcome of a flow that has not terminated before), makes no identity
\* lookup and writes no account: the step leaves the store unchanged.
C4_MissingRefreshToken ==
    /\ [](\A r \in Requests :
            GotNoRefreshToken(handlers[r])
              => /\ handlers[r].pc = "done"
                 /\ handlers[r].reason = "MissingRefreshToken"
                 /\ handlers[r].lookups = 0
                 /\ handlers[r].saves = 0)
    /\ [][ \A r \in Requests :
             (~GotNoRefreshToken(handlers[r]) /\ GotNoRefreshToken(handlers'[r]))
               => /\ accountsFile' = accountsFile
                  /\ flow.promise = "pending"
                       => /\ flow'.promise = "rejected"
                          /\ flow'.outcome = "MissingRefreshToken" ]_vars

\* C4 witness: a flow that ended with MissingRefreshToken on a store that
\* is the one it started with.
C4_Witness ==
    /\ flow.outcome = "MissingRefreshToken"
    /\ \E r \in Requests : GotNoRefreshToken(handlers[r])
    /\ accountsFile = flow.storeAtStart

\* C5: the handler whose identity lookup fails after a successful exchange
\* rejects with IdentityLookupError (the outcome of a flow that has not
\* terminated before) and never calls saveAccount: the step leaves the store
\* unchanged.
C5_IdentityLookupError ==
    /\ [](\A r \in Requests :
            handlers[r].lookup = "failed"
              => /\ handlers[r].exchange = "returned"
                 /\ handlers[r].pc = "done"
                 /\ handlers[r].reason = "IdentityLookupError"
                 /\ handlers[r].saves = 0)
    /\ [][ \A r \in Requests :
             (handlers[r].lookup # "failed" /\ handlers'[r].lookup = "failed")
               => /\ accountsFile' = accountsFile
                  /\ flow.promise = "pending"
                       => /\ flow'.promise = "rejected"
                          /\ flow'.outcome = "IdentityLookupError" ]_vars

\* C5 witness: a flow that ended with IdentityLookupError.
C5_Witness ==
    /\ flow.outcome = "IdentityLookupError"
    /\ \E r \in Requests : handlers[r].lookup = "failed"
    /\ accountsFile = flow.storeAtStart

\* C6 as claimed: when authenticate has terminated the listener is closed,
\* and server.close() is called exactly once per flow.
C6_ClosedExactlyOnce ==
    /\ Settled => ~flow.listening /\ flow.closeCalls = 1
    /\ flow.closeCalls <= 1

\* no request has reached the listener of the running flow
NoRequest == \A r \in Requests : handlers[r].pc = "none"

\* C7: a flow that has terminated without any request having reached the
\* listener ended with AuthenticationTimeout, by the timer, with the listener
\* released: the next authenticate call can bind the port.
C7_TimeoutReleasesListener ==
    (Settled /\ NoRequest)
        => /\ flow.outcome = "AuthenticationTimeout"
           /\ flow.timer = "fired"
           /\ ~flow.listening
           /\ ENABLED (\E clientConfig \in AppClients :
                           StartAuthenticate(clientConfig))

\* C7 witness: the timer fired on a flow that received no request.
C7_Witness ==
    /\ flow.outcome = "AuthenticationTimeout"
    /\ NoRequest
    /\ flow.closeCalls = 1

\* C8 as claimed: a flow ends with AuthenticationTimeout only if no callback
\* request was received before the timer fired.
C8_TimeoutOnlyWithoutRequest ==
    flow.outcome = "AuthenticationTimeout"
        => \A r \in Requests : handlers[r].pc \in {"none", "ignored"}

\* C8 amended: a flow ends with AuthenticationTimeout only if no callback
\* request was handled to its end before the timer fired; the timer stays
\* armed while a handler awaits the token exchange or the identity lookup.
C8_TimeoutOnlyBeforeCompletion ==
    /\ flow.outcome = "AuthenticationTimeout"
         => /\ flow.timer = "fired"
            /\ \A r \in Requests : handlers[r].pc # "done"
    /\ (flow.promise = "pending" /\ \A r \in Requests : handlers[r].pc # "done")
         => flow.timer = "armed"

\* C8 witness: the flow timed out while a handler awaited the identity
\* lookup.
C8_Witness ==
    /\ flow.outcome = "AuthenticationTimeout"
    /\ \E r \in Requests : handlers[r].pc = "lookup"

\* the selected account was expired when resolve compared its expiry_date
Expired ==
    /\ resolve.pc # "idle"
    /\ resolve.account # NullAccount
    /\ resolve.account.expiry_date # 0
    /\ resolve.account.expiry_date < resolve.checkedAt

\* the selected account had no expiry_date or one that was not in the past
NotExpired ==
    /\ resolve.pc # "idle"
    /\ resolve.account # NullAccount
    /\ \/ resolve.account.expiry_date = 0
       \/ ~(resolve.account.expiry_date < resolve.checkedAt)

\* C9: a resolve call on an account whose expiry_date is in the past makes
\* exactly one refresh call, with the client_id, client_secret and
\* refresh_token stored for that account; no resolve call makes more than one.
C9_OneRefreshWithOwnCredentials ==
    /\ [](resolve.refreshCalls <= 1)
    /\ [](Expired
            => /\ resolve.refreshCalls = 1
               /\ resolve.request.client_id = resolve.account.client_id
               /\ resolve.request.client_secret = resolve.account.client_secret
               /\ resolve.request.refresh_token = resolve.account.refresh_token)
    /\ [][ (resolve.pc # "refreshing" /\ resolve'.pc = "refreshing")
             => resolve'.account = Get(Config, resolve'.account.email) ]_vars

\* C9 witness: the one refresh call of a resolve on an expired account
\* failed, and no second call was made.
C9_Witness ==
    /\ Expired
    /\ resolve.pc = "failed"
    /\ resolve.error = "TokenRefreshFailed"
    /\ resolve.refreshCalls = 1

\* C10: a resolve call on an account whose expiry_date is not in the past
\* makes no refresh call, returns a client bound to the stored tokens and
\* leaves the store unchanged.
C10_NoRefreshWhenValid ==
    /\ [](NotExpired
            => /\ resolve.pc = "returned"
               /\ resolve.refreshCalls = 0
               /\ resolve.request = NoRefreshRequest
               /\ resolve.client = ClientCredentials(resolve.account))
    /\ [][ (resolve' # resolve /\ resolve'.pc = "returned"
                /\ resolve'.refreshCalls = 0)
             => /\ accountsFile' = accountsFile
                /\ resolve'.client =
                     ClientCredentials(Get(Config, resolve'.account.email)) ]_vars

\* C10 witness: resolve returned the stored tokens of an account whose
\* expiry_date is the current instant.
C10_Witness ==
    /\ NotExpired
    /\ resolve.pc = "returned"
    /\ resolve.account.expiry_date = resolve.checkedAt
    /\ resolve.client.access_token = "at1"

\* a step in which the refresh call of resolve succeeds
RefreshSucceeded == resolve.pc = "refreshing" /\ resolve'.pc = "returned"

\* C11: the step in which the refresh of resolve succeeds leaves, under the
\* account's key, a record with the access_token and the expiry_date of the
\* refresh response and with the response's refresh_token if it carries one,
\* otherwise the refresh_token resolve read from the store; the stored
\* refresh_token is never missing.
C11_RefreshWritesBack ==
    /\ [][ RefreshSucceeded =>
             LET stored == Get(loadAccountsConfig(accountsFile'),
                               resolve.account.email)
                 response == resolve'.client
             IN  /\ stored.access_token = response.access_token
                 /\ stored.expiry_date = response.expiry_date
                 /\ stored.refresh_token =
                      IF response.refresh_token # Undefined
                      THEN response.refresh_token
                      ELSE resolve.account.refresh_token ]_vars
    /\ [](\A i \in 1..Len(Config.accounts) :
            Truthy(Config.accounts[i].refresh_token))

\* C11 witness: the refresh response carried no refresh_token and the stored
\* record holds the new access_token with the original refresh_token.
C11_Witness ==
    /\ resolve.pc = "returned"
    /\ resolve.refreshCalls = 1
    /\ resolve.client.refresh_token = Undefined
    /\ Get(Config, resolve.account.email).access_token = "at2"
    /\ Get(Config, resolve.account.email).refresh_token = "rt1"

\* C12: the step in which the refresh call of resolve fails makes resolve
\* fail with TokenRefreshFailed naming the e-mail of the selected account and
\* leaves the store unchanged, as does the step that started the refresh:
\* the failed call has written nothing.
C12_RefreshFailureLeavesStore ==
    /\ [][ (resolve.pc = "refreshing" /\ resolve'.pc = "failed")
             => /\ resolve'.error = "TokenRefreshFailed"
                /\ resolve'.names = resolve.account.email
                /\ accountsFile' = accountsFile ]_vars
    /\ [][ (resolve.pc # "refreshing" /\ resolve'.pc = "refreshing")
             => accountsFile' = accountsFile ]_vars
    /\ [](resolve.error = "TokenRefreshFailed"
            => resolve.pc = "failed" /\ resolve.refreshCalls = 1)

\* C12 witness: resolve without an e-mail selected the default b@x.com, its
\* refresh failed and the error names b@x.com.
C12_Witness ==
    /\ resolve.pc = "failed"
    /\ resolve.error = "TokenRefreshFailed"
    /\ resolve.accountEmail = Undefined
    /\ resolve.names = "b@x.com"
    /\ Get(Config, "b@x.com") = resolve.account

\* C13 as claimed: the step in which the refresh of resolve succeeds on the
\* record resolve selected stores an expiry_date strictly later than the one
\* stored before the step, whatever the refresh response is.
C13_RefreshAdvancesExpiry ==
    [][ (RefreshSucceeded /\ Get(Config, resolve.account.email) = resolve.account)
          => Get(loadAccountsConfig(accountsFile'),
                 resolve.account.email).expiry_date
               > resolve.account.expiry_date ]_vars

\* a step in which resolve selects its account: getAccount(accountEmail)
Selects == resolve' # resolve /\ resolve.pc # "refreshing"

\* C14 as claimed: over any accounts.json, selection with an e-mail gives the
\* record of that key or fails; without an e-mail it gives the default
\* account if default_account is set and is a key, otherwise the first
\* account in key order, and it fails only when there is no account.
C14_SelectionRule ==
    [][ Selects =>
          LET email == resolve'.accountEmail
              found == resolve'.account
              default == Config.default_account
          IN  IF email # Undefined
              THEN IF email \in KeySet(Config)
                   THEN found = Get(Config, email)
                   ELSE resolve'.pc = "failed"
              ELSE IF default # Undefined /\ default \in KeySet(Config)
                   THEN found = Get(Config, default)
              ELSE IF Len(Config.accounts) > 0
                   THEN found = Config.accounts[1]
              ELSE resolve'.pc = "failed" ]_vars

\* C15: over any accounts.json, resolve without an e-mail on a store with no
\* account fails with NoAccountsConfigured, and resolve with an e-mail that
\* is not a key fails with AccountNotFound, whatever default and other
\* accounts the store holds; a resolve that fails in its selection makes no
\* refresh call and leaves the store unchanged.
C15_SelectionFailures ==
    /\ [][ Selects =>
             LET email == resolve'.accountEmail
             IN  /\ (email = Undefined /\ Len(Config.accounts) = 0)
                      => /\ resolve'.pc = "failed"
                         /\ resolve'.error = "NoAccountsConfigured"
                 /\ (email # Undefined /\ email \notin KeySet(Config))
                      => /\ resolve'.pc = "failed"
                         /\ resolve'.error = "AccountNotFound"
                         /\ resolve'.names = email
                 /\ resolve'.pc = "failed" => accountsFile' = accountsFile ]_vars
    /\ [](resolve.error \in {"NoAccountsConfigured", "AccountNotFound"}
            => /\ resolve.pc = "failed"
               /\ resolve.refreshCalls = 0
               /\ resolve.request = NoRefreshRequest)

\* C15 witness: resolve("b@x.com") failed with AccountNotFound on a store
\* whose only account, a@x.com, is the default.
C15_Witness ==
    /\ resolve.error = "AccountNotFound"
    /\ resolve.accountEmail = "b@x.com"
    /\ Keys(Config) = <<"a@x.com">>
    /\ Config.default_account = "a@x.com"

\* accounts.json as the step leaves it
ConfigAfter == loadAccountsConfig(accountsFile')

\* a step in which a completed login saves the account of this e-mail: the
\* step of SaveAccount for the record it leaves under that key
LoginSaved(email) ==
    /\ resolve' = resolve
    /\ accountsFile' # accountsFile
    /\ email \in KeySet(ConfigAfter)
    /\ accountsFile' = saveAccount(accountsFile, Get(ConfigAfter, email))

\* what C16 says of a step that saves the account of this e-mail
SaveKeepsDefault(email) ==
    /\ Len(Config.accounts) = 0 => ConfigAfter.default_account = email
    /\ Config.default_account # Undefined
         => ConfigAfter.default_account = Config.default_account

\* C16: a save (of a login or of the write-back of a refresh) into a store
\* with no account makes the saved account the default; a save while a
\* default exists, of a new e-mail or of an existing one, leaves
\* default_account as it was.
C16_SaveDefault ==
    /\ [][ \A email \in Emails :
             LoginSaved(email) => SaveKeepsDefault(email) ]_vars
    /\ [](Len(Config.accounts) = 0 => Config.default_account = Undefined)

\* C16 witness: b@x.com was saved after a@x.com and a@x.com is still the
\* default.
C16_Witness ==
    /\ Keys(Config) = <<"a@x.com", "b@x.com">>
    /\ Config.default_account = "a@x.com"

\* C17: a remove of the current default leaves, when another account
\* remains, a default that is set and is one of the remaining keys, and
\* clears default_account when the removed account was the last one; a remove
\* of an account that is not the default leaves default_account unchanged.
C17_RemoveDefault ==
    [][ \A email \in Emails :
          (email \in KeySet(Config) /\ RemoveCommand(email))
            => IF Config.default_account = email
               THEN IF Len(Config.accounts) > 1
                    THEN /\ ConfigAfter.default_account # Undefined
                         /\ ConfigAfter.default_account \in KeySet(ConfigAfter)
                         /\ ConfigAfter.default_account # email
                    ELSE ConfigAfter.default_account = Undefined
               ELSE ConfigAfter.default_account = Config.default_account ]_vars

\* C17 witness: a@x.com was removed and b@x.com, the account that remains,
\* is the default.
C17_Witness ==
    /\ command = [NoCommand EXCEPT !.name = "remove", !.email = "a@x.com"]
    /\ Keys(Config) = <<"b@x.com">>
    /\ Config.default_account = "b@x.com"

\* C18: set-default of an e-mail that is not a key fails with
\* AccountNotFound and leaves accounts.json unchanged; set-default of a key
\* succeeds, and afterwards default_account is that e-mail and the accounts
\* are what they were.
C18_SetDefault ==
    [][ \A email \in Emails :
          SetDefaultCommand(email)
            => IF email \notin KeySet(Config)
               THEN /\ command'.error = "AccountNotFound"
                    /\ accountsFile' = accountsFile
               ELSE /\ command'.error = "none"
                    /\ ConfigAfter.default_account = email
                    /\ ConfigAfter.accounts = Config.accounts ]_vars

\* C18 witness: set-default b@x.com failed on a store that holds a@x.com
\* only.
C18_Witness ==
    /\ command = [NoCommand EXCEPT !.name = "set-default",
                                   !.email = "b@x.com",
                                   !.error = "AccountNotFound"]
    /\ Keys(Config) = <<"a@x.com">>
    /\ Config.default_account = "a@x.com"

\* C19: remove of an e-mail that is not a key fails with AccountNotFound and
\* leaves accounts.json (accounts and default_account) unchanged; a remove
\* that succeeds deletes exactly that key and leaves every other record as
\* it was.
C19_Remove ==
    [][ \A email \in Emails :
          RemoveCommand(email)
            => IF email \notin KeySet(Config)
               THEN /\ command'.error = "AccountNotFound"
                    /\ accountsFile' = accountsFile
               ELSE /\ command'.error = "none"
                    /\ KeySet(ConfigAfter) = KeySet(Config) \ {email}
                    /\ \A other \in KeySet(ConfigAfter) :
                         Get(ConfigAfter, other) = Get(Config, other) ]_vars

\* C19 witness: remove a@x.com succeeded on a store of two accounts and left
\* b@x.com; the default a@x.com went with its account.
C19_Witness ==
    /\ command = [NoCommand EXCEPT !.name = "remove", !.email = "a@x.com"]
    /\ KeySet(Config) = {"b@x.com"}
    /\ Get(Config, "b@x.com").access_token = "at2"

\* C20 as claimed: once the store has held an account (accounts.json exists:
\* only a save creates it), a save never sets default_account, also when all
\* accounts have been removed since.
C20_DefaultOnlyFirstEver ==
    [][ \A email \in Emails :
          (accountsFile.exists /\ LoginSaved(email))
            => ConfigAfter.default_account = Config.default_account ]_vars

\* C20 amended: a save sets default_account exactly when the store has no
\* default at the time of the save; once a default exists a save never
\* changes it, and a save made after all accounts were removed makes the
\* saved account the default.
C20_DefaultWhenNone ==
    [][ \A email \in Emails :
          LoginSaved(email)
            => ConfigAfter.default_account =
                 IF Config.default_account = Undefined
                 THEN email ELSE Config.default_account ]_vars

\* C20 witness: b@x.com was removed, no account was left, and b@x.com, saved
\* again, is the default.
C20_Witness ==
    /\ command = [NoCommand EXCEPT !.name = "remove", !.email = "b@x.com"]
    /\ Keys(Config) = <<"b@x.com">>
    /\ Config.default_account = "b@x.com"

\* the handlers of the flow that called saveAccount
Savers == {r \in Requests : handlers[r].saves > 0}

\* C21 as claimed: an authenticate call that ended with success has upserted
\* exactly one account: one handler saved, once, and the store is the store
\* of the start with the record of the e-mail its lookup returned, the app
\* client's client_id and client_secret and the exchanged tokens saved into
\* it (the default set if there was none, kept otherwise).
C21_OneAccountUpserted ==
    flow.outcome = "success"
        => \E r \in Requests :
             /\ Savers = {r}
             /\ handlers[r].saves = 1
             /\ accountsFile =
                  saveAccount(flow.storeAtStart,
                      AccountCredentials(handlers[r].userEmail,
                                         flow.clientConfig, handlers[r].tokens))

\* C22 as claimed: every failing callback request receives the same error
\* page, the one of the catch block, whatever the reason of the failure, and
\* only a request of a successful flow receives the success page.
C22_ReasonIndependentPage ==
    \A r \in Requests :
        /\ handlers[r].reason \in Failures => handlers[r].response = ErrorPage
        /\ handlers[r].response = SuccessPage => handlers[r].reason = "success"

\* the page the handler sends for each of its endings
PageOf(reason) ==
    CASE reason = "MissingAuthorizationCode" -> NoCodePage
      [] reason = "MissingRefreshToken" -> NoRefreshTokenPage
      [] reason \in {"TokenExchangeFailed", "IdentityLookupError"} -> ErrorPage
      [] reason = "success" -> SuccessPage
      [] OTHER -> NoPage

\* C22 amended: every failing callback request receives a fixed error page
\* chosen by the kind of the failure (400 for a missing code, another 400
\* for a missing refresh token, 500 for a failed exchange or identity
\* lookup), and only a request handled to success receives the success page.
C22_PagePerFailureKind ==
    \A r \in Requests :
        /\ handlers[r].response = PageOf(handlers[r].reason)
        /\ handlers[r].reason \in Failures
             => handlers[r].response \in {NoCodePage, NoRefreshTokenPage, ErrorPage}
        /\ handlers[r].response = SuccessPage <=> handlers[r].reason = "success"

\* C22 witness: a request whose exchange returned no refresh_token was
\* answered with the no-refresh-token page, which is not the catch block's.
C22_Witness ==
    \E r \in Requests :
        /\ handlers[r].reason = "MissingRefreshToken"
        /\ handlers[r].response = NoRefreshTokenPage
        /\ handlers[r].response # ErrorPage

\* the loadClientCredentials call has ended
Loaded == loader.result.kind # "none"

\* C23 as claimed: whenever accounts.json holds at least one account, the
\* resolver returns the client_id and client_secret stored with an account,
\* whatever the client files are.
C23_StoredAccountFirst ==
    (Loaded /\ Len(Config.accounts) > 0)
        => /\ loader.result.kind = "returned"
           /\ \E i \in 1..Len(Config.accounts) :
                /\ loader.result.client_id = Config.accounts[i].client_id
                /\ loader.result.client_secret = Config.accounts[i].client_secret

\* credentials.json holds no client: the resolver goes on to the files
NoStoredClient == LacksClient(loadStoredCredentials(loader.credentialsFile))

\* a client file the resolver would accept
ValidFile(file) ==
    file.exists /\ file.parses /\ ~file.isNull /\ ~LacksClient(Unwrap(file))

\* C24 as claimed: the resolver goes on to the next source when the
\* --client path or the path of the environment variable names a missing
\* file, returning the first later source that exists and is valid, and it
\* fails with ConfigurationError only if no candidate file exists.
C24_FallsThroughMissing ==
    (Loaded /\ NoStoredClient)
        => /\ (loader.clientPath /\ ~loader.clientFile.exists
                 /\ loader.envPath /\ ValidFile(loader.envFile))
                => loader.result = Returned(Unwrap(loader.envFile))
           /\ (~(loader.clientPath /\ loader.clientFile.exists)
                 /\ loader.envPath /\ ~loader.envFile.exists
                 /\ ValidFile(loader.defaultFile))
                => loader.result = Returned(Unwrap(loader.defaultFile))
           /\ loader.result.error = "ConfigurationError"
                => /\ ~(loader.clientPath /\ loader.clientFile.exists)
                   /\ ~(loader.envPath /\ loader.envFile.exists)
                   /\ ~loader.defaultFile.exists

\* the one client file the resolver consults
Consulted ==
    IF loader.clientPath THEN loader.clientFile
    ELSE IF loader.envPath THEN loader.envFile
    ELSE loader.defaultFile

\* C24 amended: the resolver consults one client file only, the --client
\* path if given, else the path of the environment variable if set, else
\* ./client.json, and never goes on to a later source: if that file is
\* missing it fails, with 'Client file not found' for --client and with
\* ConfigurationError otherwise, also when a later source is valid; what it
\* returns is the client of the file consulted; ConfigurationError is raised
\* only without --client, for a file that is missing or is not a JSON object.
C24_OneFileConsulted ==
    (Loaded /\ NoStoredClient)
        => /\ loader.result.kind = "returned"
                => /\ Consulted.exists
                   /\ loader.result = Returned(Unwrap(Consulted))
           /\ ~Consulted.exists
                => /\ loader.result.kind = "thrown"
                   /\ loader.result.error =
                        IF loader.clientPath THEN "ClientFileNotFound"
                        ELSE "ConfigurationError"
           /\ loader.result.error = "ConfigurationError"
                => /\ ~loader.clientPath
                   /\ ~(Consulted.exists /\ Consulted.parses /\ ~Consulted.isNull)

\* C24 witness: the environment variable names a missing file, ./client.json
\* is valid, and the resolver failed with ConfigurationError.
C24_Witness ==
    /\ NoStoredClient
    /\ ~loader.clientPath
    /\ loader.envPath /\ ~loader.envFile.exists
    /\ ValidFile(loader.defaultFile)
    /\ loader.result.error = "ConfigurationError"
    /\ loader.result.path = "env"

\* C25 as claimed: for a consulted client file that parses as JSON, the
\* resolver returns the object under installed, else under web, else the
\* top-level object, if and only if it holds both client_id and
\* client_secret, and otherwise fails with InvalidCredentialFormat, not with
\* another error and not by reporting that nothing was found.
C25_UnwrapOrInvalidFormat ==
    (Loaded /\ NoStoredClient /\ Consulted.exists /\ Consulted.parses)
        => IF ValidFile(Consulted)
           THEN loader.result = Returned(Unwrap(Consulted))
           ELSE /\ loader.result.kind = "thrown"
                /\ loader.result.error = "InvalidCredentialFormat"

\* C26 as claimed: the refresh step of resolve never creates a key: the keys
\* after its write-back are keys before it, also when the account was
\* removed, or the store cleared, after resolve read it.
C26_RefreshCreatesNoKey ==
    [][ RefreshSucceeded => KeySet(ConfigAfter) \subseteq KeySet(Config) ]_vars

\* C27 as claimed: the refresh step of resolve leaves email, client_id,
\* client_secret, scope and token_type of the selected account, the record
\* of every other account and default_account as they were.
C27_RefreshFrame ==
    [][ RefreshSucceeded =>
          LET old == Get(Config, resolve.account.email)
              new == Get(ConfigAfter, resolve.account.email)
          IN  /\ new.email = old.email
              /\ new.client_id = old.client_id
              /\ new.client_secret = old.client_secret
              /\ new.scope = old.scope
              /\ new.token_type = old.token_type
              /\ \A other \in KeySet(Config) \ {resolve.account.email} :
                   Get(ConfigAfter, other) = Get(Config, other)
              /\ ConfigAfter.default_account = Config.default_account ]_vars

\* C27 amended: the refresh step of resolve writes, into the record of the
\* selected account, access_token, expiry_date, scope and token_type of the
\* refresh response, and the refresh_token if reissued; email, client_id and
\* client_secret of that record are those resolve read, every other
\* account's record is unchanged, and default_account is unchanged when one
\* is set (the write-back sets it, to the selected account, only in a store
\* that has none).
C27_RefreshFrameWithScope ==
    [][ RefreshSucceeded =>
          LET email == resolve.account.email
              new == Get(ConfigAfter, email)
              response == resolve'.client
          IN  /\ new.email = email
              /\ new.client_id = resolve.account.client_id
              /\ new.client_secret = resolve.account.client_secret
              /\ new.scope = response.scope
              /\ new.token_type = response.token_type
              /\ KeySet(ConfigAfter) = KeySet(Config) \cup {email}
              /\ \A other \in KeySet(Config) \ {email} :
                   Get(ConfigAfter, other) = Get(Config, other)
              /\ ConfigAfter.default_account =
                   IF Config.default_account = Undefined
                   THEN email ELSE Config.default_account ]_vars

\* C27 witness: after the refresh of b@x.com, which is not the default, its
\* record holds the scope of the response and the client resolve read.
C27_Witness ==
    /\ resolve.pc = "returned"
    /\ resolve.refreshCalls = 1
    /\ resolve.account.email = "b@x.com"
    /\ resolve.account.scope = "scope1"
    /\ Config.default_account = "a@x.com"
    /\ Get(Config, "b@x.com").scope = "scope2"
    /\ Get(Config, "b@x.com").client_id = resolve.account.client_id

\* the handlers waiting for getToken or for getUserEmail
InFlight == { r \in Requests : handlers[r].pc \in {"exchange", "lookup"} }

\* C28 as claimed: at any moment at most one token exchange or identity
\* lookup is in flight: a second callback request that arrives while one is
\* being processed starts no other exchange.
C28_OneNetworkStepInFlight == Cardinality(InFlight) <= 1

\* a request with this url has reached the listener
Arrived(h) == h.url # "none"

\* the no-code ending: the 400 page, MissingAuthorizationCode, the listener
\* closed, the timer cancelled, the store as authenticate found it
NoCodeEnding(h) ==
    /\ h.pc = "done"
    /\ h.response = NoCodePage
    /\ h.reason = "MissingAuthorizationCode"
    /\ flow.promise = "rejected"
    /\ flow.outcome = "MissingAuthorizationCode"
    /\ ~flow.listening
    /\ flow.timer = "cleared"
    /\ accountsFile = flow.storeAtStart

\* C29 as claimed: every request that reaches the listener without a code
\* is answered and ends the flow with MissingAuthorizationCode, listener
\* closed, timer cancelled, store unchanged.
C29_EveryNoCodeRequestEndsFlow ==
    \A r \in Requests :
        (Arrived(handlers[r]) /\ ~HasCode(handlers[r].url))
            => NoCodeEnding(handlers[r])

\* C29 amended: every request for a url other than /favicon.ico that reaches
\* the listener without a code is answered and ends the flow with
\* MissingAuthorizationCode, listener closed, timer cancelled, store
\* unchanged; a request for /favicon.ico is ignored: it gets no response and
\* leaves the flow, the listener, the timer and the store as they are.
C29_NoCodeEndsFlowButFavicon ==
    /\ [](\A r \in Requests :
            (Arrived(handlers[r]) /\ ~HasCode(handlers[r].url))
              => IF handlers[r].url = "/favicon.ico"
                 THEN /\ handlers[r].pc = "ignored"
                      /\ handlers[r].response = NoPage
                      /\ handlers[r].reason = "none"
                 ELSE NoCodeEnding(handlers[r]))
    /\ [][ \A r \in Requests :
             (~Arrived(handlers[r]) /\ handlers'[r].url = "/favicon.ico")
               => /\ flow' = flow
                  /\ accountsFile' = accountsFile ]_vars

\* C29 witness: a request for /favicon.ico was ignored and the request for
\* / after it ended the flow with MissingAuthorizationCode.
C29_Witness ==
    /\ handlers[1].url = "/favicon.ico"
    /\ handlers[1].pc = "ignored"
    /\ handlers[2].url = "/"
    /\ NoCodeEnding(handlers[2])

\* C30: the handler whose token exchange fails answers, cancels the timer,
\* closes the listener and rejects with TokenExchangeFailed (the outcome of
\* a flow that has not terminated before); it makes no identity lookup and
\* saves no account: the step leaves the store unchanged.
C30_TokenExchangeFailed ==
    /\ [](\A r \in Requests :
            handlers[r].exchange = "failed"
              => /\ handlers[r].pc = "done"
                 /\ handlers[r].reason = "TokenExchangeFailed"
                 /\ handlers[r].lookups = 0
                 /\ handlers[r].saves = 0)
    /\ [][ \A r \in Requests :
             (handlers[r].exchange # "failed" /\ handlers'[r].exchange = "failed")
               => /\ accountsFile' = accountsFile
                  /\ flow'.timer # "armed"
                  /\ ~flow'.listening
                  /\ flow.promise = "pending"
                       => /\ flow'.promise = "rejected"
                          /\ flow'.outcome = "TokenExchangeFailed" ]_vars

\* C30 witness: a flow that ended with TokenExchangeFailed, timer cancelled
\* and listener closed, on the store it started with.
C30_Witness ==
    /\ flow.outcome = "TokenExchangeFailed"
    /\ \E r \in Requests : handlers[r].exchange = "failed"
    /\ flow.timer = "cleared"
    /\ ~flow.listening
    /\ accountsFile = flow.storeAtStart

\* C31 as claimed: every authenticate call eventually returns and the
\* command exits, also when a request for /favicon.ico has reached the
\* listener: the login never hangs.
C31_LoginReturns ==
    (flow.promise = "pending")
        ~> (flow.promise \in {"resolved", "rejected"} /\ Ended(flow, handlers))

\* the e-mails list() returns for this file, in its order
Listed(file) ==
    [i \in 1..Len(listAccounts(file)) |-> listAccounts(file)[i].email]

\* the place of an e-mail in a list
Place(emails, email) == CHOOSE i \in 1..Len(emails) : emails[i] = email

\* C32: gscli auth list returns one entry for each account of the store, in
\* the order of the store, and flags an entry as default iff its e-mail is
\* default_account, so at most one entry is flagged; the order is the
\* insertion order: no command changes the order of two e-mails listed
\* before and after it (an upsert of an existing e-mail keeps its place),
\* and an e-mail that becomes listed comes last.
C32_ListInInsertionOrder ==
    [][ /\ (command'.name = "list" /\ command' # command)
          => LET out == command'.accounts
             IN  /\ Len(out) = Len(Config.accounts)
                 /\ \A i \in 1..Len(out) :
                      /\ out[i].email = Config.accounts[i].email
                      /\ out[i].isDefault
                           <=> (out[i].email = Config.default_account)
                 /\ \A i, j \in 1..Len(out) :
                      out[i].email = out[j].email => i = j
                 /\ Cardinality({i \in 1..Len(out) : out[i].isDefault}) <= 1
        /\ LET before == Listed(accountsFile)
               after == Listed(accountsFile')
               old == {before[i] : i \in 1..Len(before)}
               new == {after[i] : i \in 1..Len(after)}
           IN  /\ \A p, q \in old \cap new :
                    Place(before, p) < Place(before, q)
                      => Place(after, p) < Place(after, q)
               /\ \A p \in new \ old : Place(after, p) = Len(after) ]_vars

\* C32 witness: the list shows b@x.com before a@x.com with a@x.com, saved
\* twice, as the default.
C32_Witness ==
    /\ command.name = "list"
    /\ Len(command.accounts) = 2
    /\ command.accounts[1] = [email |-> "b@x.com", isDefault |-> FALSE]
    /\ command.accounts[2] = [email |-> "a@x.com", isDefault |-> TRUE]
    /\ command.accounts = listAccounts(accountsFile)

Blank(file) == file \in {NoFile, CorruptFile}

\* C34: loading an absent or unparseable accounts.json yields the empty
\* store, and every operation on such a file does what it does on an empty
\* store: list returns nothing, get finds no account (the selection fails
\* with AccountNotFound for a named e-mail and NoAccountsConfigured
\* otherwise), set-default and remove fail with AccountNotFound and leave
\* the file, and save writes a store of the saved account alone, as default.
C34_BlankFileIsEmptyStore ==
    /\ [](Blank(accountsFile)
            => /\ loadAccountsConfig(accountsFile) = EmptyConfig
               /\ listAccounts(accountsFile) = <<>>
               /\ \A email \in Emails \cup {Undefined} :
                    getAccount(accountsFile, email) = NullAccount)
    /\ [][ Blank(accountsFile)
             => /\ (command' # command /\ command'.name = "list")
                     => command'.accounts = <<>>
                /\ (command' # command
                      /\ command'.name \in {"set-default", "remove"})
                     => /\ command'.error = "AccountNotFound"
                        /\ accountsFile' = accountsFile
                /\ resolve' # resolve
                     => /\ resolve'.pc = "failed"
                        /\ resolve'.error =
                             IF Truthy(resolve'.accountEmail)
                             THEN "AccountNotFound"
                             ELSE "NoAccountsConfigured"
                /\ accountsFile' \notin {accountsFile, NoFile}
                     => \E account \in LoginAccounts :
                          accountsFile' =
                            saveAccountsConfig(
                              [default_account |-> account.email,
                               accounts |-> <<account>>]) ]_vars

\* C34 witness: on the corrupt file set-default has failed with
\* AccountNotFound and the selection of the default account with
\* NoAccountsConfigured.
C34_Witness ==
    /\ accountsFile = CorruptFile
    /\ command.name = "set-default"
    /\ command.error = "AccountNotFound"
    /\ resolve.pc = "failed"
    /\ resolve.error = "NoAccountsConfigured"

\* a step of gscli auth logout on a file it changes
LoggedOut ==
    /\ accountsFile' = logout(accountsFile)
    /\ accountsFile' # accountsFile
    /\ UNCHANGED <<command, resolve>>

\* C35: after logout the store is cleared: list returns nothing,
\* default_account is unset, the selection of an account fails for every
\* e-mail and for none, and the next save makes its account the default.
C35_LogoutClearsStore ==
    [][ /\ LoggedOut =>
              /\ listAccounts(accountsFile') = <<>>
              /\ ConfigAfter.default_account = Undefined
              /\ ConfigAfter.accounts = <<>>
              /\ \A email \in Emails \cup {Undefined} :
                   getAccount(accountsFile', email) = NullAccount
              /\ \A account \in LoginAccounts :
                   loadAccountsConfig(saveAccount(accountsFile', account))
                     = [default_account |-> account.email,
                        accounts |-> <<account>>]
        /\ (accountsFile = logout(accountsFile) /\ resolve' # resolve)
              => resolve'.pc = "failed" ]_vars

\* C35 witness: the list showed two accounts, logout removed the file, and
\* the selection of the default account failed with NoAccountsConfigured.
C35_Witness ==
    /\ command.name = "list"
    /\ Len(command.accounts) = 2
    /\ accountsFile = NoFile
    /\ resolve.pc = "failed"
    /\ resolve.error = "NoAccountsConfigured"

\* C36: from the empty store, after any sequence of save, set-default,
\* remove, refresh and logout, default_account is unset iff the store holds
\* no account: getAccount never needs its first-account fallback.
C36_DefaultUnsetIffEmpty ==
    (Config.default_account = Undefined) <=> (Config.accounts = <<>>)

\* C36 witness: after a refresh was written back and the last account was
\* removed, the file holds no account and no default.
C36_Witness ==
    /\ accountsFile.exists
    /\ Config.accounts = <<>>
    /\ Config.default_account = Undefined
    /\ resolve.pc = "returned"
    /\ resolve.refreshCalls = 1

\* C37 as claimed: after a successful refresh the client resolve returns
\* holds the access_token, the expiry_date and the refresh_token of the
\* record written to the store (the original refresh_token when the
\* response has none).
C37_ClientHoldsStoredTokens ==
    [][ RefreshSucceeded =>
          LET written == Get(ConfigAfter, resolve.account.email)
          IN  /\ resolve'.client.access_token = written.access_token
              /\ resolve'.client.expiry_date = written.expiry_date
              /\ resolve'.client.refresh_token = written.refresh_token ]_vars

\* default_account, if set, is a key of accounts
DefaultIsKeyOf(file) ==
    LET config == loadAccountsConfig(file)
    IN  Truthy(config.default_account)
          => config.default_account \in KeySet(config)

\* C38: with two processes whose save, set-default, remove and refresh
\* write-back interleave between the load and the write of the whole file,
\* the last writer wins, and every state written to the file, like every
\* state a process has loaded, has a default_account that, if set, is a key
\* of accounts.
C38_RacingWritesKeepDefaultAKey ==
    /\ [](/\ DefaultIsKeyOf(accountsFile)
          /\ \A p \in DOMAIN writers : DefaultIsKeyOf(writers[p].read))
    /\ [][ \A p \in Writers :
             (HasLoaded(p) /\ writers'[p].pc = "written")
               => /\ accountsFile' = WriterResult(writers[p], writers[p].read)
                  /\ DefaultIsKeyOf(accountsFile') ]_vars

\* C38 witness: both processes loaded the missing file; the first saved
\* a@x.com, the second then saved b@x.com over it: the save of a@x.com is
\* lost and b@x.com is the default.
C38_Witness ==
    /\ DOMAIN writers = Writers
    /\ writers[1].pc = "written" /\ writers[1].name = "save"
    /\ writers[1].email = "a@x.com" /\ writers[1].read = NoFile
    /\ writers[2].pc = "written" /\ writers[2].name = "save"
    /\ writers[2].email = "b@x.com" /\ writers[2].read = NoFile
    /\ Keys(Config) = <<"b@x.com">>
    /\ Config.default_account = "b@x.com"

\* C39 as claimed: gscli auth status reports authenticated exactly when the
\* store holds at least one account.
C39_AuthenticatedIffAccounts ==
    [][ (command' # command /\ command'.name = "status")
          => (command'.authenticated <=> Config.accounts # <<>>) ]_vars

\* the handler sent the success page
Succeeded(h) == h.response = SuccessPage

\* the record the handler saves
AccountOf(h) == AccountCredentials(h.userEmail, flow.clientConfig, h.tokens)

\* C40: in a successful authenticate the token exchange, the identity
\* lookup, the store write, the success page, the close of the listener and
\* the return come in this order: a handler that sent the success page had
\* its exchange and its lookup answered and has saved its account, the
\* step that sends the page leaves that account in the store and the
\* listener closed and does not yet return, and when authenticate returns
\* success the store contains the account of a handler that succeeded.
C40_SuccessAfterPersistence ==
    /\ [](/\ \A r \in Requests :
               Succeeded(handlers[r])
                 => /\ handlers[r].exchange = "returned"
                    /\ handlers[r].lookup = "returned"
                    /\ handlers[r].saves = 1
                    /\ flow.closeCalls >= 1
                    /\ ~flow.listening
          /\ flow.outcome = "success"
               => \E r \in Requests :
                     /\ Succeeded(handlers[r])
                     /\ handlers[r].userEmail \in KeySet(Config))
    /\ [][ /\ \A r \in Requests :
                (~Succeeded(handlers[r]) /\ Succeeded(handlers'[r]))
                  => /\ handlers[r].pc = "lookup"
                     /\ Get(ConfigAfter, handlers'[r].userEmail)
                          = AccountOf(handlers'[r])
                     /\ flow'.promise = flow.promise
           /\ (flow.promise = "pending" /\ flow'.promise = "resolved")
                => \E r \in Requests :
                      /\ Succeeded(handlers[r])
                      /\ Get(Config, handlers[r].userEmail) # NullAccount ]_vars

\* C40 witness: authenticate has returned success and the store holds the
\* account of the handler that sent the success page, under its e-mail.
C40_Witness ==
    /\ flow.outcome = "success"
    /\ Succeeded(handlers[1])
    /\ handlers[1].userEmail = "b@x.com"
    /\ Get(Config, "b@x.com") = AccountOf(handlers[1])

====
